---- MODULE Spec2Model ----
(***************************************************************************)
(* Model of jupyter_mcp_setup: the server-setup controller                 *)
(* (JupyterMCPServerSetup in server_setup.py) together with the part of    *)
(* cli.py that turns its outcome into the process exit code.               *)
(*                                                                         *)
(* The controller is one Python main thread.  Its position is `pc` (the    *)
(* code of run() and of the functions it calls) plus `frames`, the stack   *)
(* of cleanup() activations that are running on top of it: one pushed by   *)
(* run()'s finally clause, and one pushed by every signal handler          *)
(* activation.  Python runs a signal handler in the main thread between    *)
(* two bytecodes of whatever is executing, so a handler activation may be  *)
(* pushed at any position, also on top of another cleanup().               *)
(***************************************************************************)
EXTENDS Integers, Sequences, FiniteSets, TLC

(***************************************************************************)
(* Bounds of the model.                                                    *)
(***************************************************************************)
MaxSignals == 2
MaxPipe == 1
TickStep == 15
WaitStep == 5

(***************************************************************************)
(* Program constants.                                                      *)
(***************************************************************************)
startup_timeout == 30
MinTokenLen == 8

(***************************************************************************)
(* Python's None and values that may be None.                              *)
(***************************************************************************)
None == [some |-> FALSE]
Some(x) == [some |-> TRUE, val |-> x]

(***************************************************************************)
(* Text.  A token is a sequence of characters; a port is written as a      *)
(* sequence of decimal digits.  A line of the interactive server's output  *)
(* is the sequence of the URL-like occurrences it contains, left to        *)
(* right; each occurrence has a host, the path before the query, the       *)
(* digits after the colon and the text after "?token=".                    *)
(***************************************************************************)
HexChars == {"a", "b", "c", "d", "e", "f", "0", "1", "2", "3", "4", "5", "6", "7", "8", "9"}

RECURSIVE HexPrefix(_)
HexPrefix(s) ==
    IF s = <<>> \/ Head(s) \notin HexChars THEN <<>>
    ELSE <<Head(s)>> \o HexPrefix(Tail(s))

RECURSIVE ParseInt(_)
ParseInt(ds) ==
    IF ds = <<>> THEN 0
    ELSE 10 * ParseInt(SubSeq(ds, 1, Len(ds) - 1)) + ds[Len(ds)]

Occ(h, p, ds, t) == [host |-> h, path |-> p, digits |-> ds, tok |-> t]

TokGood == <<"a", "b", "c", "d", "e", "f", "0", "1">>
TokTail == <<"0", "1", "2", "3", "4", "5", "6", "7", "Z", "9">>
TokShort == <<"a", "b", "c">>

LineNoUrl == <<>>
LineLab == <<Occ("localhost", "/lab", <<8, 8>>, TokGood)>>
LineIpRoot == <<Occ("127.0.0.1", "/", <<8, 9>>, TokTail)>>
LinePortZero == <<Occ("localhost", "/", <<0>>, TokGood)>>
LineShortToken == <<Occ("127.0.0.1", "/lab", <<8, 8>>, TokShort)>>
LineZeroThenIp == <<Occ("localhost", "/lab", <<0, 0>>, TokGood), Occ("127.0.0.1", "/lab", <<8, 9>>, TokGood)>>

\* The lines fed to the scraper alone: every line with one URL of a host,
\* path, port and token below, every line with two such URLs with a good
\* token, and a line without any URL.
ScraperHosts == {"localhost", "127.0.0.1"}
ScraperPaths == {"/lab", "/"}
ScraperDigits == {<<0>>, <<8, 8>>}
ScraperTokens == {TokGood, TokTail, TokShort}
Occurrences ==
    {Occ(h, p, ds, t) : h \in ScraperHosts, p \in ScraperPaths, ds \in ScraperDigits,
                        t \in ScraperTokens}
ScraperLines ==
    {<<o>> : o \in Occurrences}
        \cup {<<a, b>> : a \in {o \in Occurrences : o.tok = TokGood},
                         b \in {o \in Occurrences : o.tok = TokGood}}
        \cup {LineNoUrl, LineIpRoot, LineZeroThenIp}

\* The lines the interactive server writes in a run of the controller.
Lines == {LineNoUrl, LineLab, LinePortZero, LineShortToken}

(***************************************************************************)
(* _extract_jupyter_details: the four patterns, in order.                  *)
(***************************************************************************)
patterns ==
    << [host |-> "localhost", path |-> "/lab"],
       [host |-> "localhost", path |-> "/"],
       [host |-> "127.0.0.1", path |-> "/lab"],
       [host |-> "127.0.0.1", path |-> "/"] >>

\* re.search(pattern, line): the leftmost occurrence the pattern matches
\* (\d+ needs a digit, [a-f0-9]+ needs a hex character), or None.
ReSearch(pattern, ln) ==
    LET hits == {i \in 1..Len(ln) :
                    /\ ln[i].host = pattern.host
                    /\ ln[i].path = pattern.path
                    /\ ln[i].digits # <<>>
                    /\ HexPrefix(ln[i].tok) # <<>>}
    IN IF hits = {} THEN None
       ELSE LET i == CHOOSE j \in hits : \A k \in hits : j <= k
            IN Some([group1 |-> ln[i].digits, group2 |-> HexPrefix(ln[i].tok)])

\* A variant that builds the URL without the port that was found.
LocalUrlWithoutPort(port) == [scheme |-> "http", host |-> "localhost", port |-> 0]

\* The URL the controller builds: f"http://localhost:{self.jupyter_port}".
LocalUrl(port) == [scheme |-> "http", host |-> "localhost", port |-> port]

\* The facts a match with a positive port yields.
FactsOf(m) ==
    [port |-> ParseInt(m.group1), token |-> m.group2,
     url |-> LocalUrl(ParseInt(m.group1))]

\* A match is accepted only with a positive port.
PortValid(port) == port > 0

\* The loop over the patterns from index k on: Some(facts) of the first
\* pattern that matches with a valid port, None when no pattern does.
RECURSIVE ExtractFrom(_, _)
ExtractFrom(k, ln) ==
    IF k > Len(patterns) THEN None
    ELSE LET m == ReSearch(patterns[k], ln)
         IN IF m.some /\ PortValid(ParseInt(m.val.group1))
            THEN Some(FactsOf(m.val))
            ELSE ExtractFrom(k + 1, ln)

extract_jupyter_details(ln) == ExtractFrom(1, ln)

(***************************************************************************)
(* EnvironmentManager: validation of the facts before the bridge launch.   *)
(***************************************************************************)
\* validate_url: urlparse(url) has a scheme and a netloc.
validate_url(url) == url.some /\ url.val.scheme # "" /\ url.val.host # ""

\* re.match(r'^[a-f0-9]+$', s): one or more hex characters up to the end of
\* the string, where `$` also matches just before a newline that ends it.
MatchesHex(s) ==
    LET body == IF s # <<>> /\ s[Len(s)] = "\n" THEN SubSeq(s, 1, Len(s) - 1) ELSE s
    IN body # <<>> /\ \A i \in 1..Len(body) : body[i] \in HexChars

\* validate_token: `not token or len(token) < 8` fails, then the pattern.
validate_token(token) ==
    /\ token.some
    /\ Len(token.val) >= MinTokenLen
    /\ MatchesHex(token.val)

(***************************************************************************)
(* Paths.  A path is the sequence of its components, an absolute one       *)
(* starting with "/"; the empty sequence is the empty string.              *)
(***************************************************************************)
\* Path.cwd(): the project directory of the run.
project_dir == <<"/", "home", "proj">>

\* The notebooks of the runs: in the project directory, in a directory
\* below it, and outside of it.
NotebookTop == project_dir \o <<"nb.ipynb">>
NotebookSub == project_dir \o <<"work", "nb.ipynb">>
NotebookOutside == <<"/", "data", "nb.ipynb">>
Notebooks == {NotebookTop, NotebookSub, NotebookOutside}

\* path.relative_to(base) succeeds when base is a prefix of path.
IsUnder(path, base) ==
    Len(path) >= Len(base) /\ SubSeq(path, 1, Len(base)) = base

\* A variant that always gives the path as it is.
document_id_as_given(path) == path

\* get_relative_path_for_document_id: the path relative to the project
\* directory, the absolute path when relative_to raises ValueError.
get_relative_path_for_document_id(path) ==
    IF IsUnder(path, project_dir)
    THEN SubSeq(path, Len(project_dir) + 1, Len(path))
    ELSE path

\* get_virtual_env_path / get_virtual_env_python.
get_virtual_env_path(dir) == dir \o <<"jupyter-mcp-env">>
get_virtual_env_python(dir) == get_virtual_env_path(dir) \o <<"bin", "python">>

\* The interpreter that runs the tool when it is not the environment's.
SystemPython == <<"/", "usr", "bin", "python3">>

\* Values of sys.executable: the tool runs under the interpreter it was
\* installed for, or under the interpreter of the environment it manages.
Interpreters == {SystemPython, get_virtual_env_python(project_dir)}

(***************************************************************************)
(* EnvironmentManager.create_jupyter_environment.                          *)
(***************************************************************************)
EnvKeys ==
    {"TRANSPORT", "PROVIDER", "DOCUMENT_URL", "DOCUMENT_TOKEN", "DOCUMENT_ID",
     "RUNTIME_URL", "RUNTIME_TOKEN", "START_NEW_RUNTIME"}

\* The dictionary built from validated inputs.
EnvVars(url, token, notebook) ==
    [TRANSPORT |-> "stdio", PROVIDER |-> "jupyter", DOCUMENT_URL |-> url,
     DOCUMENT_TOKEN |-> token, DOCUMENT_ID |-> notebook, RUNTIME_URL |-> url,
     RUNTIME_TOKEN |-> token, START_NEW_RUNTIME |-> "true"]

\* `if not value` for the values of the dictionary: after the validation
\* of the URL and of the token only the document id can be empty.
HasEmptyValue(env) == env.DOCUMENT_ID = <<>>

\* The outcome of a call: the dictionary returned (ok), or ServerSetupError.
create_jupyter_environment(url, token, notebook) ==
    IF validate_url(url) /\ validate_token(token)
          /\ ~HasEmptyValue(EnvVars(url.val, token.val, notebook))
    THEN [ok |-> TRUE, env |-> EnvVars(url.val, token.val, notebook)]
    ELSE [ok |-> FALSE]

(***************************************************************************)
(* The discovery document .mcp.json: its "mcpServers" object, the set of   *)
(* its members (a server name with its entry).                             *)
(***************************************************************************)
Member(name, entry) == [name |-> name, entry |-> entry]

Names(servers) == {m.name : m \in servers}

\* An entry of another tool, and an entry "jupyter" left by an earlier run.
OtherEntry ==
    [command |-> <<"/", "usr", "bin", "node">>, args |-> <<"server.js">>,
     env |-> [API_KEY |-> "k"]]
StaleEntry ==
    [command |-> SystemPython, args |-> <<"-m", "jupyter_mcp_server">>,
     env |-> [TRANSPORT |-> "stdio"]]

\* The documents found at the output path at the start of a run.
OldDocuments ==
    {{Member("other", OtherEntry)}, {Member("jupyter", StaleEntry)},
     {Member("jupyter", StaleEntry), Member("other", OtherEntry)}}

\* config = {"mcpServers": {"jupyter": {"command": sys.executable, ...}}}
McpConfig(executable, env_vars) ==
    {Member("jupyter", [command |-> executable, args |-> <<"-m", "jupyter_mcp_server">>,
                        env |-> env_vars])}

(***************************************************************************)
(* The client integration settings .claude/settings.local.json.  The file  *)
(* is absent, not JSON ("invalid"), truncated ("partial"), or a JSON       *)
(* object ("json") with its unrelated top-level members and the array      *)
(* "enabledMcpjsonServers" (None when the object has no such key).         *)
(***************************************************************************)
SettingsFile(kind, other, enabled) == [kind |-> kind, other |-> other, enabled |-> enabled]

AbsentSettings == SettingsFile("absent", {}, None)
InvalidSettings == SettingsFile("invalid", {}, None)
TruncatedSettings == SettingsFile("partial", {}, None)

\* A settings dictionary; {} is the empty one.
Settings(other, enabled) == [other |-> other, enabled |-> enabled]
EmptySettings == Settings({}, None)

\* The settings files found at the start of a run.
SettingsMembers == {{}, {[key |-> "permissions", value |-> "allow"]}}
SettingsArrays == {None, Some(<<>>), Some(<<"other">>), Some(<<"jupyter">>),
                   Some(<<"jupyter", "other">>)}
SettingsFiles ==
    {AbsentSettings, InvalidSettings}
        \cup {SettingsFile("json", o, e) : o \in SettingsMembers, e \in SettingsArrays}

\* A variant that keeps what it could read of a file that is not JSON.
load_keeping_unparsed(file) ==
    IF file.kind = "json" THEN Settings(file.other, file.enabled)
    ELSE IF file.kind = "invalid" THEN Settings({[key |-> "unparsed", value |-> ""]}, None)
    ELSE EmptySettings

\* load_existing_claude_settings: the object of the file; {} when the file
\* does not exist or json.load raises.
load_existing_claude_settings(file) ==
    IF file.kind = "json" THEN Settings(file.other, file.enabled) ELSE EmptySettings

Contains(arr, name) == \E i \in 1..Len(arr) : arr[i] = name

\* A variant that appends the name whether the array contains it or not.
update_appending(server_name, existing_settings) ==
    LET arr == IF existing_settings.enabled.some THEN existing_settings.enabled.val
               ELSE <<>>
    IN [existing_settings EXCEPT !.enabled = Some(Append(arr, server_name))]

\* A variant that enables the server in an array of its own.
update_replacing_array(server_name, existing_settings) ==
    [existing_settings EXCEPT !.enabled = Some(<<server_name>>)]

\* update_enabled_mcp_servers: the array is created when the key is missing
\* and the name is appended when the array does not contain it.
update_enabled_mcp_servers(server_name, existing_settings) ==
    LET arr == IF existing_settings.enabled.some THEN existing_settings.enabled.val
               ELSE <<>>
    IN [existing_settings EXCEPT
           !.enabled = Some(IF Contains(arr, server_name) THEN arr
                            ELSE Append(arr, server_name))]

\* json.dump(settings, f, indent=2): the file holds the dictionary.
Dumped(d) == SettingsFile("json", d.other, d.enabled)

(***************************************************************************)
(* installer.py: the virtual environment <project_dir>/jupyter-mcp-env.    *)
(* dir: the directory exists; python: bin/python is "missing", a "file"    *)
(* that is not executable, or "executable"; activate: bin/activate exists; *)
(* packages: what pip installed, in order.                                 *)
(***************************************************************************)
dependencies ==
    << "jupyter-kernel-client>=0.7.3", "jupyter-nbmodel-client>=0.13.5", "mcp[cli]>=1.10.1",
       "pydantic", "uvicorn", "click", "fastapi", "ipykernel", "jupyter_server>=1.6,<3",
       "jupyterlab==4.4.1", "jupyter-collaboration==4.0.2", "datalayer_pycrdt==0.12.17",
       "jupyter_mcp_server", "psutil>=5.0.0" >>

AbsentEnvironment ==
    [dir |-> FALSE, python |-> "missing", activate |-> FALSE, packages |-> <<>>]

EmptyDirectory == [AbsentEnvironment EXCEPT !.dir = TRUE]

\* venv.create(self.venv_dir, with_pip=True)
FreshEnvironment ==
    [dir |-> TRUE, python |-> "executable", activate |-> TRUE, packages |-> <<>>]

CompleteEnvironment == [FreshEnvironment EXCEPT !.packages = dependencies]

\* What install() may find at the canonical path.
Environments ==
    {AbsentEnvironment, EmptyDirectory, FreshEnvironment, CompleteEnvironment,
     [CompleteEnvironment EXCEPT !.activate = FALSE],
     [CompleteEnvironment EXCEPT !.python = "file"],
     [CompleteEnvironment EXCEPT !.python = "missing"]}

\* utils.validate_project_structure: bin/python and bin/activate exist.
validate_project_structure(v) == v.python # "missing" /\ v.activate

\* Outcomes of `python -c "import jupyter_mcp_server"` under run_command: it
\* fails when the package is not installed, and it may fail (broken
\* package, timeout of 10 s) when it is.
ImportOutcomes(v) ==
    IF \E i \in DOMAIN v.packages : v.packages[i] = "jupyter_mcp_server"
    THEN BOOLEAN ELSE {FALSE}

\* check_existing_installation, import_ok being the outcome of the import
\* command when it is run; get_virtual_env_python raises SetupError, caught
\* with the command's failures, unless bin/python is executable.
check_existing_installation(v, import_ok) ==
    /\ v.dir
    /\ validate_project_structure(v)
    /\ v.python = "executable"
    /\ import_ok

reinstall_always(force, valid) == FALSE

\* install(): `if not force_reinstall and self.check_existing_installation()`.
skip_installation(force, valid) == ~force /\ valid

(***************************************************************************)
(* State.                                                                  *)
(***************************************************************************)
VARIABLES
    pc,               \* position of the main thread in run() and its callees
    frames,           \* stack of running cleanup() activations, innermost last; each has
                      \* the steps it performed so far (seq) and the time its wait() has
                      \* waited so far (waited)
    pending,          \* what run()'s finally clause resumes: "return", "SystemExit", "Exception"
    run_result,       \* what run() returned: "none" (not returned), "False", "True"
    exit_code,        \* exit code of the process, None while it runs
    jproc,            \* the interactive server process: "none", "running", "exited"
    mproc,            \* the bridge process: "none", "running", "exited"
    jupyter_process,  \* self.jupyter_process is not None
    mcp_process,      \* self.mcp_process is not None
    jupyter_port,     \* self.jupyter_port
    jupyter_token,    \* self.jupyter_token
    jupyter_url,      \* self.jupyter_url
    line,             \* the line readline() returned, None outside the extraction
    jpipe,            \* number of lines the interactive server wrote that were not read yet
    elapsed,          \* time.time() - start_time of the startup wait
    mcp_config,       \* the file <output_dir>/.mcp.json: "absent", "old", "partial", "new"
    cleanup_on_exit,  \* self.cleanup_on_exit
    port_detection_timeout,  \* self.port_detection_timeout
    signals,          \* number of SIGINT/SIGTERM delivered so far
    sig_first,        \* history: the phase in which the first signal was delivered
    cause,            \* history: the first ServerSetupError raised in run()
    mcp_check,        \* history: what poll() showed after the confirmation delay
    doc_written,      \* history: this run wrote the discovery document
    npasses,          \* history: number of cleanup() activations started
    mcp_servers,      \* the "mcpServers" object of the file .mcp.json (empty when the
                      \* file is absent or was truncated)
    mcp_old,          \* history: mcp_servers when the write of the file that is in
                      \* progress began, empty when none is
    sys_executable,   \* sys.executable: the interpreter that runs the tool
    mcp_cmd,          \* history: the command line the bridge was launched with
    notebook_path,    \* self.notebook_path
    validated_env,    \* self.env_manager.validated_env, None for the initial {}
    env_call,         \* history: the last call of create_jupyter_environment, its
                      \* arguments and its outcome
    claude_config,    \* self.claude_config
    claude_writable,  \* the directory .claude can be created and written
    settings,         \* the file .claude/settings.local.json
    settings_read,    \* the file as load_existing_claude_settings found it in the call of
                      \* generate_claude_settings that is running or ran last, else None
    force_reinstall,  \* install(force_reinstall)
    python_ok,        \* check_python_version((3, 10))
    venv,             \* the virtual environment self.venv_dir
    steps,            \* history: the steps of install() that change the environment,
                      \* in the order they were run
    existing,         \* history: what check_existing_installation returned, None when
                      \* install() did not call it
    install_result,   \* "none" while install() runs, "True", "InstallationError"
    smoke,            \* history: the checks validate_installation ran, in order, each
                      \* with its outcome
    skip_validation,  \* the flag --skip-validation
    validation,       \* the validation phase: "none" (not run), "True", "ValidationError"
    attempted         \* history: the processes ("mcp", "jupyter") whose stop some
                      \* activation of cleanup() has begun

vars == <<pc, frames, pending, run_result, exit_code, jproc, mproc, jupyter_process,
          mcp_process, jupyter_port, jupyter_token, jupyter_url, line, jpipe, elapsed,
          mcp_config, cleanup_on_exit, port_detection_timeout, signals, sig_first, cause,
          mcp_check, doc_written, npasses, mcp_servers, mcp_old, sys_executable, mcp_cmd,
          notebook_path, validated_env, env_call, claude_config, claude_writable, settings,
          settings_read, force_reinstall, python_ok, venv, steps, existing, install_result,
          smoke, skip_validation, validation, attempted>>

procVars == <<jproc, mproc, jupyter_process, mcp_process>>
factVars == <<jupyter_port, jupyter_token, jupyter_url>>
fileVars == <<mcp_config, doc_written>>
instVars == <<force_reinstall, python_ok, venv, steps, existing, install_result, smoke>>
\* What no step of the server setup changes: its configuration and the
\* state the installer left.
cliVars == <<skip_validation, validation>>
confVars == <<cleanup_on_exit, port_detection_timeout, instVars, cliVars>>
claudeVars == <<claude_config, claude_writable, settings, settings_read>>
docVars ==
    <<mcp_servers, mcp_old, sys_executable, mcp_cmd, notebook_path, validated_env, env_call,
      claudeVars>>
histVars == <<sig_first, cause, mcp_check>>
ctlVars == <<frames, pending, run_result, exit_code, npasses>>
\* What no step of the installer changes.
setupVars ==
    <<ctlVars, procVars, factVars, fileVars, histVars, docVars, cleanup_on_exit,
      port_detection_timeout, line, jpipe, elapsed, signals, cliVars, attempted>>

(***************************************************************************)
(* __init__: the state after construction; the handlers are installed.     *)
(***************************************************************************)
\* kwargs.get('port_detection_timeout', 30); the command line passes its
\* --port-detection-timeout option, whose default is 30 as well.
DefaultPortDetectionTimeout == 30

\* Values of --port-detection-timeout: below, at and above the default.
ConfiguredTimeouts == {15, DefaultPortDetectionTimeout, 45}

\* The installation phase is over: install() found a valid environment and
\* returned True without a step.
Installed ==
    /\ force_reinstall = FALSE
    /\ python_ok = TRUE
    /\ venv = CompleteEnvironment
    /\ steps = <<>>
    /\ existing = Some(TRUE)
    /\ install_result = "True"
    /\ smoke = <<>>

\* The validation phase ran and passed.
Validated ==
    /\ skip_validation = FALSE
    /\ validation = "True"

Constructed(timeouts) ==
    /\ port_detection_timeout \in timeouts
    /\ frames = <<>>
    /\ pending = "none"
    /\ run_result = "none"
    /\ exit_code = None
    /\ jproc = "none"
    /\ mproc = "none"
    /\ jupyter_process = FALSE
    /\ mcp_process = FALSE
    /\ jupyter_port = None
    /\ jupyter_token = None
    /\ jupyter_url = None
    /\ line = None
    /\ jpipe = 0
    /\ elapsed = 0
    /\ mcp_config \in {"absent", "old"}
    /\ cleanup_on_exit \in BOOLEAN
    /\ signals = 0
    /\ sig_first = None
    /\ cause = "none"
    /\ mcp_check = "none"
    /\ doc_written = FALSE
    /\ npasses = 0
    /\ mcp_servers = (IF mcp_config = "old" THEN {Member("other", OtherEntry)} ELSE {})
    /\ mcp_old = {}
    /\ sys_executable = SystemPython
    /\ mcp_cmd = None
    /\ notebook_path = NotebookTop
    /\ validated_env = None
    /\ env_call = None
    /\ claude_config = TRUE
    /\ claude_writable = TRUE
    /\ settings = AbsentSettings
    /\ settings_read = None
    /\ attempted = {}

InitWith(timeouts) ==
    /\ pc = "j_venv"
    /\ Installed
    /\ Validated
    /\ Constructed(timeouts)

\* A run with the default configuration of the timeout.
Init == InitWith({DefaultPortDetectionTimeout})

\* A run with --port-detection-timeout given.
InitConfigured == InitWith(ConfiguredTimeouts)

(***************************************************************************)
(* Exceptions.  Two classes matter: "Exception" (ServerSetupError and any  *)
(* other subclass of Exception: every handler in this code catches them    *)
(* alike) and "SystemExit" (raised by sys.exit(0) in the signal handler;   *)
(* a BaseException, which no `except Exception` catches).                  *)
(***************************************************************************)
\* Positions of run()'s try body (start_jupyter_lab .. monitor_processes).
RunTrySteps ==
    {"j_venv", "j_popen", "j_assign", "j_loop", "j_poll", "j_read", "j_extract",
     "x_token", "x_url", "m_guard", "m_env", "m_popen", "m_assign", "m_sleep",
     "m_check", "g_env", "g_open", "g_dump", "g_claude", "c_load", "c_open", "c_dump",
     "mon_j", "mon_m", "mon_sleep"}

\* Positions of the startup wait of start_jupyter_lab, where start_time and
\* line are in scope.
StartupLoopSteps == {"j_loop", "j_poll", "j_read", "j_extract", "x_token", "x_url"}
TimeInScope(at) == at \in StartupLoopSteps \cup {"in_read_try"}

\* Positions inside the try of the read loop of start_jupyter_lab, whose
\* `except Exception` sleeps and continues the loop.
ReadTrySteps == {"j_read", "j_extract", "x_token", "x_url"}

\* Positions inside the try of generate_claude_settings, whose
\* `except Exception` logs and returns False: generate_configurations logs
\* a warning and goes on.
ClaudeTrySteps == {"c_load", "c_open", "c_dump"}

\* Positions of cleanup() inside a try whose `except Exception` logs and goes
\* on.  An activation that a signal handler interrupted can resume only
\* through an exception the handler raises, at the except clause that covers
\* the interrupted position; what is kept of it is that clause ("try_first",
\* "try_second", "try_config") or "no_try" for a position no try covers.
CaughtSteps ==
    {"m_terminate", "m_wait", "j_terminate", "j_wait", "r_unlink",
     "try_first", "try_second", "try_config"}

Interrupted(step) ==
    CASE step \in {"m_terminate", "m_wait"} -> "try_first"
      [] step \in {"j_terminate", "j_wait"} -> "try_second"
      [] step = "r_unlink" -> "try_config"
      [] OTHER -> "no_try"

\* Where cleanup() continues after such an except clause.
AfterCatch(step) ==
    CASE step \in {"m_terminate", "m_wait", "try_first"} -> "j_if"
      [] step \in {"j_terminate", "j_wait", "try_second"} -> "r_if"
      [] OTHER -> "return"

\* cli.py: an exception that leaves run().  SystemExit passes every except
\* clause of run_server_setup_phase and main; anything else is wrapped into
\* ServerSetupError and main exits 1.
LeaveRun(exc) ==
    [frames |-> <<>>, pc |-> "done", pending |-> "none",
     exit |-> IF exc = "SystemExit" THEN Some(0) ELSE Some(1), started |-> FALSE]

\* run()'s finally clause: cleanup() starts, `what` resumes after it.
EnterFinally(what) ==
    [frames |-> <<[id |-> npasses + 1, by |-> "finally", step |-> "enter", seq |-> <<>>,
                   waited |-> 0]>>,
     pc |-> "finally", pending |-> what, exit |-> None, started |-> TRUE]

\* Exception `exc` raised at the top of the stack `fs` (in the main code
\* when `fs` is empty): the state in which execution continues.
RECURSIVE Unwound(_, _)
Unwound(exc, fs) ==
    IF fs # <<>>
    THEN LET top == fs[Len(fs)]
             rest == SubSeq(fs, 1, Len(fs) - 1)
         IN IF exc = "Exception" /\ top.step \in CaughtSteps
            THEN [frames |-> Append(rest, [top EXCEPT !.step = AfterCatch(top.step)]),
                  pc |-> pc, pending |-> pending, exit |-> None, started |-> FALSE]
            ELSE IF top.by = "handler"
            THEN Unwound(exc, rest)
            ELSE LeaveRun(exc)
    ELSE IF exc = "Exception" /\ pc \in ReadTrySteps \cup {"in_read_try"}
         THEN [frames |-> <<>>, pc |-> "j_loop", pending |-> pending, exit |-> None,
               started |-> FALSE]
         ELSE IF exc = "Exception" /\ pc \in ClaudeTrySteps \cup {"in_claude_try"}
         THEN [frames |-> <<>>, pc |-> "mon_j", pending |-> pending, exit |-> None,
               started |-> FALSE]
         ELSE IF exc = "Exception" /\ pc \in RunTrySteps \cup {"in_try"}
         THEN [frames |-> <<>>, pc |-> "run_except", pending |-> pending, exit |-> None,
               started |-> FALSE]
         ELSE IF pc \in RunTrySteps
                          \cup {"in_try", "in_read_try", "in_claude_try", "run_except"}
         THEN EnterFinally(exc)
         ELSE LeaveRun(exc)

Raise(exc, fs) ==
    LET r == Unwound(exc, fs)
    IN /\ frames' = r.frames
       /\ pc' = r.pc
       /\ pending' = r.pending
       /\ exit_code' = r.exit
       /\ npasses' = IF r.started THEN npasses + 1 ELSE npasses
       /\ line' = IF r.pc = pc THEN line ELSE None
       /\ elapsed' = IF TimeInScope(r.pc) THEN elapsed ELSE 0
       /\ UNCHANGED run_result

\* `raise ServerSetupError(...)` in the main code of run()'s try body.
RaiseSetupError(c) ==
    /\ Raise("Exception", <<>>)
    /\ cause' = IF cause = "none" THEN c ELSE cause

Main(at) == frames = <<>> /\ pc = at

\* The main code moves on; the locals of the startup wait go out of scope
\* when it is left.
Goto(next) ==
    /\ pc' = next
    /\ elapsed' = IF TimeInScope(next) THEN elapsed ELSE 0
    /\ UNCHANGED ctlVars

(***************************************************************************)
(* The environment: the two processes, the clock, the operator.            *)
(***************************************************************************)
\* The interactive server writes a line to its stdout pipe (it blocks when
\* the pipe is full).  What the line says is chosen where it is read; lines
\* written while cleanup() runs are never read and are left out.
JupyterEmit ==
    /\ jproc = "running"
    /\ frames = <<>>
    /\ pc # "done"
    /\ jpipe < MaxPipe
    /\ jpipe' = jpipe + 1
    /\ UNCHANGED <<pc, line, ctlVars, procVars, factVars, fileVars, confVars, attempted, docVars, histVars,
                   signals, elapsed>>

\* A process exits on its own.
JupyterExits ==
    /\ pc # "done"
    /\ jproc = "running"
    /\ jproc' = "exited"
    /\ UNCHANGED <<pc, line, ctlVars, mproc, jupyter_process, mcp_process, factVars,
                   fileVars, confVars, attempted, docVars, histVars, signals, jpipe, elapsed>>

McpExits ==
    /\ pc # "done"
    /\ mproc = "running"
    /\ mproc' = "exited"
    /\ UNCHANGED <<pc, line, ctlVars, jproc, jupyter_process, mcp_process, factVars,
                   fileVars, confVars, attempted, docVars, histVars, signals, jpipe, elapsed>>

\* Time passes during the startup wait.
Tick ==
    /\ frames = <<>>
    /\ pc \in StartupLoopSteps
    /\ elapsed < startup_timeout
    /\ elapsed' = elapsed + TickStep
    /\ UNCHANGED <<pc, line, ctlVars, procVars, factVars, fileVars, confVars, attempted, docVars, histVars,
                   signals, jpipe>>

\* The phase of run() a position of the main code belongs to.
Phase(at) ==
    CASE at \in {"j_venv", "j_popen", "j_assign"} \cup StartupLoopSteps -> "LaunchingInteractiveServer"
      [] at \in {"m_guard", "m_env", "m_popen", "m_assign", "m_sleep", "m_check"} -> "LaunchingBridge"
      [] at \in {"g_env", "g_open", "g_dump", "g_claude"} \cup ClaudeTrySteps -> "WritingConfig"
      [] at \in {"mon_j", "mon_m", "mon_sleep"} -> "Monitoring"
      [] at \in {"run_except", "finally"} -> "ShuttingDown"
      [] at \in {"in_try", "in_read_try", "in_claude_try"} -> "Interrupted"
      [] OTHER -> "Returned"

\* The main code can resume after a signal handler only through an exception
\* the handler raises, at the clause that covers the interrupted position;
\* what is kept of the position is that clause: "in_read_try" (the try of
\* the read loop), "in_claude_try" (the try of generate_claude_settings),
\* "in_try" (the rest of run()'s try body), or the position itself outside
\* of them.
InterruptedMain(at) ==
    IF at \in ReadTrySteps \cup {"in_read_try"} THEN "in_read_try"
    ELSE IF at \in ClaudeTrySteps \cup {"in_claude_try"} THEN "in_claude_try"
    ELSE IF at \in RunTrySteps \cup {"in_try"} THEN "in_try"
    ELSE at

\* _signal_handler: SIGINT or SIGTERM is delivered (the same handler is
\* installed for both and uses signum only in its log line); the handler
\* starts on top of whatever the main thread is executing and calls cleanup().
signal_handler ==
    /\ pc # "done"
    /\ signals < MaxSignals
    /\ sig_first' = IF signals = 0 THEN Some(Phase(pc)) ELSE sig_first
    /\ signals' = signals + 1
    /\ frames' = Append([i \in DOMAIN frames |->
                             [frames[i] EXCEPT !.step = Interrupted(frames[i].step),
                                                !.waited = 0]],
                         [id |-> npasses + 1, by |-> "handler", step |-> "enter", seq |-> <<>>,
                          waited |-> 0])
    /\ npasses' = npasses + 1
    /\ pc' = InterruptedMain(pc)
    /\ line' = None
    /\ elapsed' = IF TimeInScope(InterruptedMain(pc)) THEN elapsed ELSE 0
    /\ UNCHANGED <<pending, run_result, exit_code, procVars, factVars, fileVars,
                   confVars, attempted, docVars, cause, mcp_check, jpipe>>

(***************************************************************************)
(* start_jupyter_lab.                                                      *)
(***************************************************************************)
mainFrame == <<procVars, factVars, fileVars, confVars, attempted, docVars, sig_first, mcp_check, signals, jpipe>>

\* get_virtual_env_python(self.project_dir)
start_jupyter_lab_venv ==
    /\ Main("j_venv")
    /\ \E ok \in BOOLEAN :
          IF ok THEN Goto("j_popen") /\ UNCHANGED <<line, cause>>
          ELSE RaiseSetupError("venv")
    /\ UNCHANGED mainFrame

\* subprocess.Popen(jupyter_cmd, ...): the process exists before the
\* attribute is assigned.
start_jupyter_lab_popen ==
    /\ Main("j_popen")
    /\ \E ok \in BOOLEAN :
          IF ok
          THEN /\ jproc' = "running"
               /\ Goto("j_assign")
               /\ UNCHANGED <<line, cause>>
          ELSE /\ RaiseSetupError("popen")
               /\ UNCHANGED jproc
    /\ UNCHANGED <<mproc, jupyter_process, mcp_process, factVars, fileVars, confVars, attempted, docVars,
                   sig_first, mcp_check, signals, jpipe>>

\* A variant that keeps the Popen object in a local variable only.
start_jupyter_lab_assign_local ==
    /\ Main("j_assign")
    /\ Goto("j_loop")
    /\ UNCHANGED <<line, cause, procVars, factVars, fileVars, confVars, attempted, docVars,
                   sig_first, mcp_check, signals, jpipe>>

\* self.jupyter_process = ...; start_time = time.time(): elapsed is 0 here
start_jupyter_lab_assign ==
    /\ Main("j_assign")
    /\ jupyter_process' = TRUE
    /\ Goto("j_loop")
    /\ UNCHANGED <<line, cause, jproc, mproc, mcp_process, factVars, fileVars, confVars, attempted, docVars,
                   sig_first, mcp_check, signals, jpipe>>

\* while time.time() - start_time < startup_timeout: ... else the timeout error
start_jupyter_lab_loop ==
    /\ Main("j_loop")
    /\ IF elapsed < startup_timeout
       THEN Goto("j_poll") /\ UNCHANGED <<line, cause>>
       ELSE RaiseSetupError("timeout")
    /\ UNCHANGED mainFrame

\* if self.jupyter_process.poll() is not None: raise
start_jupyter_lab_poll ==
    /\ Main("j_poll")
    /\ IF jproc = "running"
       THEN Goto("j_read") /\ UNCHANGED <<line, cause>>
       ELSE RaiseSetupError("jupyter_exited")
    /\ UNCHANGED mainFrame

\* line = self.jupyter_process.stdout.readline(): a blocking read.  It
\* returns the next line, or "" at end of file (then sleep and continue);
\* with an empty pipe and a live process it does not return.
start_jupyter_lab_readline ==
    /\ Main("j_read")
    /\ IF jpipe > 0
       THEN /\ \E ln \in Lines : line' = Some(ln)
            /\ jpipe' = jpipe - 1
            /\ Goto("j_extract")
       ELSE /\ jproc = "exited"
            /\ Goto("j_loop")
            /\ UNCHANGED <<line, jpipe>>
    /\ UNCHANGED <<cause, procVars, factVars, fileVars, confVars, attempted, docVars, sig_first, mcp_check,
                   signals>>

\* _extract_jupyter_details(line): on a match with a valid port the three
\* attributes are assigned one after the other, then True is returned.
extract_port ==
    /\ Main("j_extract")
    /\ LET r == extract_jupyter_details(line.val)
       IN IF r.some
          THEN /\ jupyter_port' = Some(r.val.port)
               /\ Goto("x_token")
               /\ UNCHANGED line
          ELSE /\ Goto("j_loop")
               /\ line' = None
               /\ UNCHANGED jupyter_port
    /\ UNCHANGED <<cause, procVars, jupyter_token, jupyter_url, fileVars, confVars, attempted, docVars,
                   sig_first, mcp_check, signals, jpipe>>

extract_token ==
    /\ Main("x_token")
    /\ jupyter_token' = Some(extract_jupyter_details(line.val).val.token)
    /\ Goto("x_url")
    /\ UNCHANGED <<line, cause, procVars, jupyter_port, jupyter_url, fileVars, confVars, attempted, docVars,
                   sig_first, mcp_check, signals, jpipe>>

extract_url ==
    /\ Main("x_url")
    /\ jupyter_url' = Some(LocalUrl(jupyter_port.val))
    /\ Goto("m_guard")
    /\ line' = None
    /\ UNCHANGED <<cause, procVars, jupyter_port, jupyter_token, fileVars, confVars, attempted, docVars,
                   sig_first, mcp_check, signals, jpipe>>

(***************************************************************************)
(* start_mcp_server.                                                       *)
(***************************************************************************)
\* Python truth value of self.jupyter_port / self.jupyter_token.
TruthyInt(v) == v.some /\ v.val # 0
TruthyStr(v) == v.some /\ v.val # <<>>

\* if not self.jupyter_port or not self.jupyter_token: raise
DetailsAvailable == TruthyInt(jupyter_port) /\ TruthyStr(jupyter_token)

\* The call of create_jupyter_environment by start_mcp_server and by
\* _generate_mcp_config, with the facts and the document id of the notebook.
JupyterEnvironment ==
    create_jupyter_environment(jupyter_url, jupyter_token,
                               get_relative_path_for_document_id(notebook_path))

\* create_jupyter_environment: the URL and the token are validated; the
\* environment is returned only when both pass.
create_jupyter_environment_ok == JupyterEnvironment.ok

\* A call of create_jupyter_environment: self.validated_env is assigned on
\* success only (env_vars.copy()); the call and its outcome are recorded.
BuildEnvironment(url, token, notebook) ==
    LET result == create_jupyter_environment(url, token, notebook)
    IN /\ validated_env' = IF result.ok THEN Some(result.env) ELSE validated_env
       /\ env_call' = Some([url |-> url, token |-> token, notebook |-> notebook,
                            result |-> result])

BuildJupyterEnvironment ==
    BuildEnvironment(jupyter_url, jupyter_token,
                     get_relative_path_for_document_id(notebook_path))

\* The main frame without the builder's stored environment.
mainFrameBuilding ==
    <<procVars, factVars, fileVars, confVars, attempted, mcp_servers, mcp_old, sys_executable, mcp_cmd,
      notebook_path, claudeVars, sig_first, mcp_check, signals, jpipe>>

start_mcp_server_guard ==
    /\ Main("m_guard")
    /\ IF DetailsAvailable
       THEN Goto("m_env") /\ UNCHANGED <<line, cause>>
       ELSE RaiseSetupError("facts")
    /\ UNCHANGED mainFrame

start_mcp_server_env ==
    /\ Main("m_env")
    /\ BuildJupyterEnvironment
    /\ IF create_jupyter_environment_ok
       THEN Goto("m_popen") /\ UNCHANGED <<line, cause>>
       ELSE RaiseSetupError("env")
    /\ UNCHANGED mainFrameBuilding

\* get_virtual_env_python(...); subprocess.Popen(mcp_cmd, ...)
start_mcp_server_popen ==
    /\ Main("m_popen")
    /\ \E ok \in BOOLEAN :
          IF ok
          THEN /\ mproc' = "running"
               /\ mcp_cmd' = Some(<<get_virtual_env_python(project_dir), "-m",
                                    "jupyter_mcp_server">>)
               /\ Goto("m_assign")
               /\ UNCHANGED <<line, cause>>
          ELSE /\ RaiseSetupError("mcp_popen")
               /\ UNCHANGED <<mproc, mcp_cmd>>
    /\ UNCHANGED <<jproc, jupyter_process, mcp_process, factVars, fileVars, confVars, attempted,
                   mcp_servers, mcp_old, sys_executable, notebook_path, validated_env,
                   env_call, claudeVars, sig_first, mcp_check, signals, jpipe>>

start_mcp_server_assign ==
    /\ Main("m_assign")
    /\ mcp_process' = TRUE
    /\ Goto("m_sleep")
    /\ UNCHANGED <<line, cause, jproc, mproc, jupyter_process, factVars, fileVars,
                   confVars, attempted, docVars, sig_first, mcp_check, signals, jpipe>>

\* time.sleep(2)
start_mcp_server_sleep ==
    /\ Main("m_sleep")
    /\ Goto("m_check")
    /\ UNCHANGED <<line, cause>>
    /\ UNCHANGED mainFrame

\* A variant that does not look at the result of poll().
StillRunningUnchecked(p) == TRUE

\* The check after the delay: self.mcp_process.poll() is None.
StillRunning(p) == p = "running"

start_mcp_server_check ==
    /\ Main("m_check")
    /\ mcp_check' = mproc
    /\ IF StillRunning(mproc)
       THEN Goto("g_env") /\ UNCHANGED <<line, cause>>
       ELSE RaiseSetupError("mcp_exited")
    /\ UNCHANGED <<procVars, factVars, fileVars, confVars, attempted, docVars, sig_first, signals, jpipe>>

(***************************************************************************)
(* generate_configurations.                                                *)
(***************************************************************************)
\* The guard of generate_configurations and the environment built by
\* _generate_mcp_config.
generate_configurations_env ==
    /\ Main("g_env")
    /\ IF DetailsAvailable
       THEN BuildJupyterEnvironment
       ELSE UNCHANGED <<validated_env, env_call>>
    /\ IF DetailsAvailable /\ create_jupyter_environment_ok
       THEN Goto("g_open") /\ UNCHANGED <<line, cause>>
       ELSE RaiseSetupError("config")
    /\ UNCHANGED mainFrameBuilding

\* open(self.mcp_config_path, 'w'): the file is created or truncated.
generate_mcp_config_open ==
    /\ Main("g_open")
    /\ \E ok \in BOOLEAN :
          IF ok
          THEN /\ mcp_config' = "partial"
               /\ mcp_servers' = {}
               /\ mcp_old' = mcp_servers
               /\ Goto("g_dump")
               /\ UNCHANGED <<line, cause>>
          ELSE /\ RaiseSetupError("config")
               /\ UNCHANGED <<mcp_config, mcp_servers, mcp_old>>
    /\ UNCHANGED <<procVars, factVars, doc_written, confVars, attempted, sys_executable, mcp_cmd,
                   notebook_path, validated_env, env_call, claudeVars, sig_first, mcp_check, signals,
                   jpipe>>

\* json.dump(config, f, indent=2) and the close of the file.
generate_mcp_config_dump ==
    /\ Main("g_dump")
    /\ mcp_config' = "new"
    /\ mcp_servers' = McpConfig(sys_executable, JupyterEnvironment.env)
    /\ mcp_old' = {}
    /\ doc_written' = TRUE
    /\ Goto("g_claude")
    /\ UNCHANGED <<line, cause, procVars, factVars, confVars, attempted, sys_executable,
                   mcp_cmd, notebook_path, validated_env, env_call, claudeVars, sig_first, mcp_check,
                   signals, jpipe>>

\* if self.claude_config: generate_claude_settings("jupyter"); its result
\* only selects the log line.
generate_configurations_claude ==
    /\ Main("g_claude")
    /\ Goto(IF claude_config THEN "c_load" ELSE "mon_j")
    /\ UNCHANGED <<line, cause>>
    /\ UNCHANGED mainFrame

\* The main frame without the settings file and what was read of it.
mainFrameSettings ==
    <<procVars, factVars, fileVars, confVars, attempted, mcp_servers, mcp_old, sys_executable, mcp_cmd,
      notebook_path, validated_env, env_call, claude_config, claude_writable, sig_first,
      mcp_check, signals, jpipe>>

\* generate_claude_settings: ensure_claude_directory() (False ends the call
\* with False), load_existing_claude_settings() and
\* update_enabled_mcp_servers(), which give the local `settings`.
generate_claude_settings_load ==
    /\ Main("c_load")
    /\ IF claude_writable
       THEN settings_read' = Some(settings) /\ Goto("c_open")
       ELSE UNCHANGED settings_read /\ Goto("mon_j")
    /\ UNCHANGED <<line, cause, settings>>
    /\ UNCHANGED mainFrameSettings

\* The local `settings` of generate_claude_settings after the update.
LocalSettings ==
    update_enabled_mcp_servers("jupyter", load_existing_claude_settings(settings_read.val))

\* open(claude_config_path, 'w'): the file is created or truncated.
generate_claude_settings_open ==
    /\ Main("c_open")
    /\ settings' = TruncatedSettings
    /\ Goto("c_dump")
    /\ UNCHANGED <<line, cause, settings_read>>
    /\ UNCHANGED mainFrameSettings

\* json.dump(settings, f, indent=2) and the close of the file; the call
\* returns True.
generate_claude_settings_dump ==
    /\ Main("c_dump")
    /\ settings' = Dumped(LocalSettings)
    /\ Goto("mon_j")
    /\ UNCHANGED <<line, cause, settings_read>>
    /\ UNCHANGED mainFrameSettings

(***************************************************************************)
(* monitor_processes.                                                      *)
(***************************************************************************)
monitor_jupyter ==
    /\ Main("mon_j")
    /\ IF jupyter_process /\ jproc # "running"
       THEN RaiseSetupError("monitor_jupyter")
       ELSE Goto("mon_m") /\ UNCHANGED <<line, cause>>
    /\ UNCHANGED mainFrame

monitor_mcp ==
    /\ Main("mon_m")
    /\ IF mcp_process /\ mproc # "running"
       THEN RaiseSetupError("monitor_mcp")
       ELSE Goto("mon_sleep") /\ UNCHANGED <<line, cause>>
    /\ UNCHANGED mainFrame

\* time.sleep(1)
monitor_sleep ==
    /\ Main("mon_sleep")
    /\ Goto("mon_j")
    /\ UNCHANGED <<line, cause>>
    /\ UNCHANGED mainFrame

(***************************************************************************)
(* run(): the except clause and the finally clause; cli.py: the result.    *)
(***************************************************************************)
\* A variant of the except clause in a run() without the finally clause.
run_except_without_finally ==
    /\ Main("run_except")
    /\ pc' = "cli"
    /\ run_result' = "False"
    /\ UNCHANGED <<frames, pending, npasses, line, cause, exit_code, elapsed>>
    /\ UNCHANGED mainFrame

\* except Exception as e: log; return False -- and the finally clause starts.
run_except ==
    /\ Main("run_except")
    /\ LET r == EnterFinally("return")
       IN /\ frames' = r.frames
          /\ pc' = r.pc
          /\ pending' = r.pending
          /\ npasses' = npasses + 1
    /\ UNCHANGED <<line, cause, run_result, exit_code, elapsed>>
    /\ UNCHANGED mainFrame

\* run_server_setup_phase: run() returned False, ServerSetupError is raised
\* and main() exits with 1.
ExitCodeOf(result) == IF result = "True" THEN 0 ELSE 1

cli_result ==
    /\ Main("cli")
    /\ pc' = "done"
    /\ exit_code' = Some(ExitCodeOf(run_result))
    /\ UNCHANGED <<line, cause, frames, pending, run_result, npasses, elapsed>>
    /\ UNCHANGED mainFrame

(***************************************************************************)
(* cleanup(): the innermost activation runs.  Its steps, in program order: *)
(*   enter, m_terminate, m_wait, m_kill, j_if, j_terminate, j_wait,        *)
(*   j_kill, r_if, r_unlink, return.                                       *)
(***************************************************************************)
Top == frames[Len(frames)]
Below == SubSeq(frames, 1, Len(frames) - 1)

InCleanup(step) == frames # <<>> /\ Top.step = step

\* The innermost activation moves on to `step`.
Step(step) ==
    /\ frames' = [frames EXCEPT ![Len(frames)].step = step]
    /\ UNCHANGED <<pc, line, pending, run_result, exit_code, npasses, elapsed>>

\* The innermost activation begins the teardown step `ev` and moves on.
StepAfter(ev, step) ==
    /\ frames' = [frames EXCEPT ![Len(frames)].step = step,
                                ![Len(frames)].seq = Append(@, ev)]
    /\ UNCHANGED <<pc, line, pending, run_result, exit_code, npasses, elapsed>>

\* A variant that stops the interactive server first.
StopOrderJupyterFirst == <<"jupyter", "mcp">>

\* The order of the two stops: the first and the second role to be stopped.
StopOrder == <<"mcp", "jupyter">>

RoleStep(role, what) ==
    IF role = "mcp"
    THEN CASE what = "terminate" -> "m_terminate" [] what = "wait" -> "m_wait"
           [] OTHER -> "m_kill"
    ELSE CASE what = "terminate" -> "j_terminate" [] what = "wait" -> "j_wait"
           [] OTHER -> "j_kill"

Handle(role) == IF role = "mcp" THEN mcp_process ELSE jupyter_process
Proc(role) == IF role = "mcp" THEN mproc ELSE jproc
SetProc(role, v) ==
    IF role = "mcp" THEN mproc' = v /\ UNCHANGED jproc ELSE jproc' = v /\ UNCHANGED mproc
StopEvent(role) == IF role = "mcp" THEN "mcp_stop" ELSE "jup_stop"

\* Where cleanup() goes after the stop of `role`: the `if` of the next role,
\* or the configuration clean-up after the last one.
AfterStop(role) == IF role = StopOrder[1] THEN "j_if" ELSE "r_if"

\* logger.info("Cleaning up processes..."); if <first process>: try: -- the
\* stop of the process is begun (its try block is entered).
cleanup_enter ==
    /\ InCleanup("enter")
    /\ IF Handle(StopOrder[1])
       THEN /\ StepAfter(StopEvent(StopOrder[1]), RoleStep(StopOrder[1], "terminate"))
            /\ attempted' = attempted \cup {StopOrder[1]}
       ELSE Step("j_if") /\ UNCHANGED attempted
    /\ UNCHANGED <<cause>>
    /\ UNCHANGED <<procVars, factVars, fileVars, confVars, docVars, sig_first, mcp_check, signals,
                   jpipe>>

\* if <second process>: try:
cleanup_second_if ==
    /\ InCleanup("j_if")
    /\ IF Handle(StopOrder[2])
       THEN /\ StepAfter(StopEvent(StopOrder[2]), RoleStep(StopOrder[2], "terminate"))
            /\ attempted' = attempted \cup {StopOrder[2]}
       ELSE Step("r_if") /\ UNCHANGED attempted
    /\ UNCHANGED <<cause>>
    /\ UNCHANGED <<procVars, factVars, fileVars, confVars, docVars, sig_first, mcp_check, signals,
                   jpipe>>

\* process.terminate(): a request to a live process (which may fail, the
\* error is caught by `except Exception`); nothing for one that has exited.
cleanup_terminate(role) ==
    /\ InCleanup(RoleStep(role, "terminate"))
    /\ \/ Step(RoleStep(role, "wait"))
       \/ /\ Proc(role) = "running"
          /\ Raise("Exception", frames)
    /\ UNCHANGED <<cause, procVars, factVars, fileVars, confVars, attempted, docVars, sig_first, mcp_check,
                   signals, jpipe>>

\* A variant with the bridge's timeout for both processes.
GracefulTimeoutOfBridge(role) == 5

\* The timeout of the wait: wait(timeout=5) for the bridge, wait(timeout=10)
\* for the interactive server.
GracefulTimeout(role) == IF role = "mcp" THEN 5 ELSE 10

\* The innermost activation leaves its wait for `step`.
StepFromWait(step) ==
    /\ frames' = [frames EXCEPT ![Len(frames)].step = step, ![Len(frames)].waited = 0]
    /\ UNCHANGED <<pc, line, pending, run_result, exit_code, npasses, elapsed>>

\* process.wait(timeout=...): returns when the process has exited (it may
\* exit at any time of the wait), goes on waiting while the timeout has not
\* elapsed, and raises TimeoutExpired when the process is still alive then.
cleanup_wait(role) ==
    /\ InCleanup(RoleStep(role, "wait"))
    /\ \/ /\ Proc(role) = "exited"
          /\ StepFromWait(AfterStop(role))
          /\ UNCHANGED <<jproc, mproc>>
       \/ /\ Proc(role) = "running"
          /\ SetProc(role, "exited")
          /\ StepFromWait(AfterStop(role))
       \/ /\ Proc(role) = "running"
          /\ Top.waited < GracefulTimeout(role)
          /\ frames' = [frames EXCEPT ![Len(frames)].waited = @ + WaitStep]
          /\ UNCHANGED <<pc, line, pending, run_result, exit_code, npasses, elapsed>>
          /\ UNCHANGED <<jproc, mproc>>
       \/ /\ Proc(role) = "running"
          /\ Top.waited >= GracefulTimeout(role)
          /\ StepFromWait(RoleStep(role, "kill"))
          /\ UNCHANGED <<jproc, mproc>>
    /\ UNCHANGED <<cause, jupyter_process, mcp_process, factVars, fileVars, confVars, attempted, docVars,
                   sig_first, mcp_check, signals, jpipe>>

\* except subprocess.TimeoutExpired: process.kill() -- an error raised here
\* is inside an except clause and is not caught by its sibling.
cleanup_kill(role) ==
    /\ InCleanup(RoleStep(role, "kill"))
    /\ \/ /\ Proc(role) = "exited"
          /\ Step(AfterStop(role))
          /\ UNCHANGED <<jproc, mproc>>
       \/ /\ Proc(role) = "running"
          /\ SetProc(role, "exited")
          /\ Step(AfterStop(role))
       \/ /\ Proc(role) = "running"
          /\ Raise("Exception", frames)
          /\ UNCHANGED <<jproc, mproc>>
    /\ UNCHANGED <<cause, jupyter_process, mcp_process, factVars, fileVars, confVars, attempted, docVars,
                   sig_first, mcp_check, signals, jpipe>>

\* if self.cleanup_on_exit: if self.mcp_config_path.exists():
cleanup_config_if ==
    /\ InCleanup("r_if")
    /\ IF cleanup_on_exit
       THEN StepAfter("retract", IF mcp_config # "absent" THEN "r_unlink" ELSE "return")
       ELSE Step("return")
    /\ UNCHANGED <<cause, procVars, factVars, fileVars, confVars, attempted, docVars, sig_first, mcp_check,
                   signals, jpipe>>

\* A variant of the config block that withdraws the integration as well: it
\* removes the settings file together with the discovery document. Teardown
\* must tell the program from this variant.
cleanup_unlink_and_settings(outcomes) ==
    /\ InCleanup("r_unlink")
    /\ \E removed \in outcomes :
          IF removed
          THEN /\ mcp_config' = "absent" /\ mcp_servers' = {} /\ Step("return")
               /\ settings' = AbsentSettings
          ELSE /\ UNCHANGED <<mcp_config, mcp_servers, settings>>
               /\ Raise("Exception",
                        [frames EXCEPT ![Len(frames)].seq = Append(@, "unlink_failed")])
    /\ UNCHANGED <<cause, procVars, factVars, doc_written, confVars, attempted, mcp_old, sys_executable,
                   mcp_cmd, notebook_path, validated_env, env_call, claude_config, claude_writable,
                   settings_read, sig_first, mcp_check, signals, jpipe>>

\* self.mcp_config_path.unlink(), with the outcomes the file system offers:
\* TRUE, the file is removed; FALSE, unlink() raises, which the `except
\* Exception` of the block catches and logs ("unlink_failed").
cleanup_unlink(outcomes) ==
    /\ InCleanup("r_unlink")
    /\ \E removed \in outcomes :
          IF removed
          THEN mcp_config' = "absent" /\ mcp_servers' = {} /\ Step("return")
          ELSE /\ UNCHANGED <<mcp_config, mcp_servers>>
               /\ Raise("Exception",
                        [frames EXCEPT ![Len(frames)].seq = Append(@, "unlink_failed")])
    /\ UNCHANGED <<cause, procVars, factVars, doc_written, confVars, attempted, mcp_old, sys_executable,
                   mcp_cmd, notebook_path, validated_env, env_call, claudeVars, sig_first, mcp_check,
                   signals, jpipe>>

\* cleanup() returns.  In the signal handler sys.exit(0) follows; in run()'s
\* finally clause the pending return or exception resumes.
cleanup_return ==
    /\ InCleanup("return")
    /\ IF Top.by = "handler"
       THEN Raise("SystemExit", Below)
       ELSE IF pending = "return"
            THEN /\ frames' = <<>>
                 /\ pc' = "cli"
                 /\ run_result' = "False"
                 /\ pending' = "none"
                 /\ UNCHANGED <<line, exit_code, npasses, elapsed>>
            ELSE Raise(pending, frames)
    /\ UNCHANGED <<cause, procVars, factVars, fileVars, confVars, attempted, docVars, sig_first,
                   mcp_check, signals, jpipe>>

(***************************************************************************)
(* The specification.                                                      *)
(***************************************************************************)
Next ==
    \/ JupyterEmit
    \/ JupyterExits
    \/ McpExits
    \/ Tick
    \/ signal_handler
    \/ start_jupyter_lab_venv
    \/ start_jupyter_lab_popen
    \/ start_jupyter_lab_assign
    \/ start_jupyter_lab_loop
    \/ start_jupyter_lab_poll
    \/ start_jupyter_lab_readline
    \/ extract_port
    \/ extract_token
    \/ extract_url
    \/ start_mcp_server_guard
    \/ start_mcp_server_env
    \/ start_mcp_server_popen
    \/ start_mcp_server_assign
    \/ start_mcp_server_sleep
    \/ start_mcp_server_check
    \/ generate_configurations_env
    \/ generate_mcp_config_open
    \/ generate_mcp_config_dump
    \/ generate_configurations_claude
    \/ generate_claude_settings_load
    \/ generate_claude_settings_open
    \/ generate_claude_settings_dump
    \/ monitor_jupyter
    \/ monitor_mcp
    \/ monitor_sleep
    \/ run_except
    \/ cli_result
    \/ cleanup_enter
    \/ cleanup_second_if
    \/ \E role \in {"mcp", "jupyter"} : cleanup_terminate(role)
    \/ \E role \in {"mcp", "jupyter"} : cleanup_wait(role)
    \/ \E role \in {"mcp", "jupyter"} : cleanup_kill(role)
    \/ cleanup_config_if
    \/ cleanup_unlink({TRUE})
    \/ cleanup_return

Spec == Init /\ [][Next]_vars

SpecConfigured == InitConfigured /\ [][Next]_vars

(***************************************************************************)
(* The scraper alone: the startup loop has read a line of the server's     *)
(* output and _extract_jupyter_details is applied to it.                   *)
(***************************************************************************)
InitScraper ==
    /\ port_detection_timeout = DefaultPortDetectionTimeout
    /\ pc = "j_extract"
    /\ frames = <<>>
    /\ pending = "none"
    /\ run_result = "none"
    /\ exit_code = None
    /\ jproc = "running"
    /\ mproc = "none"
    /\ jupyter_process = TRUE
    /\ mcp_process = FALSE
    /\ jupyter_port = None
    /\ jupyter_token = None
    /\ jupyter_url = None
    /\ line \in {Some(ln) : ln \in ScraperLines}
    /\ jpipe = 0
    /\ elapsed = 0
    /\ mcp_config \in {"absent", "old"}
    /\ cleanup_on_exit \in BOOLEAN
    /\ signals = 0
    /\ sig_first = None
    /\ cause = "none"
    /\ mcp_check = "none"
    /\ doc_written = FALSE
    /\ npasses = 0
    /\ mcp_servers = (IF mcp_config = "old" THEN {Member("other", OtherEntry)} ELSE {})
    /\ mcp_old = {}
    /\ sys_executable = SystemPython
    /\ mcp_cmd = None
    /\ notebook_path = NotebookTop
    /\ validated_env = None
    /\ env_call = None
    /\ claude_config = TRUE
    /\ claude_writable = TRUE
    /\ settings = AbsentSettings
    /\ settings_read = None
    /\ attempted = {}
    /\ Installed
    /\ Validated

NextScraper ==
    \/ extract_port
    \/ extract_token
    \/ extract_url

SpecScraper == InitScraper /\ [][NextScraper]_vars

(***************************************************************************)
(* The configuration writers alone: the controller has extracted the facts *)
(* of a line and launches the bridge and writes the documents, over the    *)
(* documents found at the output path, the notebooks and the interpreters. *)
(***************************************************************************)
\* The lines the facts of these runs come from.
DocumentLines == {LineLab, LineIpRoot, LineShortToken}

InitAfterExtraction(lines, documents, interpreters, notebooks, writables, files) ==
    /\ port_detection_timeout = DefaultPortDetectionTimeout
    /\ pc = "m_guard"
    /\ frames = <<>>
    /\ pending = "none"
    /\ run_result = "none"
    /\ exit_code = None
    /\ jproc = "running"
    /\ mproc = "none"
    /\ jupyter_process = TRUE
    /\ mcp_process = FALSE
    /\ \E ln \in lines :
          LET facts == extract_jupyter_details(ln).val
          IN /\ jupyter_port = Some(facts.port)
             /\ jupyter_token = Some(facts.token)
             /\ jupyter_url = Some(facts.url)
    /\ line = None
    /\ jpipe = 0
    /\ elapsed = 0
    /\ mcp_config \in {"absent", "old"}
    /\ cleanup_on_exit \in BOOLEAN
    /\ signals = 0
    /\ sig_first = None
    /\ cause = "none"
    /\ mcp_check = "none"
    /\ doc_written = FALSE
    /\ npasses = 0
    /\ mcp_servers \in (IF mcp_config = "old" THEN documents ELSE {{}})
    /\ mcp_old = {}
    /\ sys_executable \in interpreters
    /\ mcp_cmd = None
    /\ notebook_path \in notebooks
    /\ validated_env = None
    /\ env_call = None
    /\ claude_config \in BOOLEAN
    /\ claude_writable \in writables
    /\ settings \in files
    /\ settings_read = None
    /\ attempted = {}
    /\ Installed
    /\ Validated

InitDocuments ==
    InitAfterExtraction(DocumentLines, OldDocuments, Interpreters, Notebooks, BOOLEAN,
                        SettingsFiles)

\* generate_configurations() is called once more on the same controller.
generate_configurations_again ==
    /\ Main("mon_j")
    /\ Goto("g_env")
    /\ UNCHANGED <<line, cause>>
    /\ UNCHANGED mainFrame

NextDocuments ==
    \/ start_mcp_server_guard
    \/ start_mcp_server_env
    \/ start_mcp_server_popen
    \/ start_mcp_server_assign
    \/ start_mcp_server_sleep
    \/ start_mcp_server_check
    \/ generate_configurations_env
    \/ generate_mcp_config_open
    \/ generate_mcp_config_dump
    \/ generate_configurations_claude
    \/ generate_claude_settings_load
    \/ generate_claude_settings_open
    \/ generate_claude_settings_dump
    \/ generate_configurations_again

SpecDocuments == InitDocuments /\ [][NextDocuments]_vars

(***************************************************************************)
(* The run from the extraction of the facts on: the bridge launch, the     *)
(* configuration writing, the monitoring and the teardown, with signals,   *)
(* with the Claude configuration enabled or not, with the directory        *)
(* .claude writable or not, with or without a settings file, and with a    *)
(* discovery document whose removal may fail (under Next it is always      *)
(* removable).                                                             *)
(***************************************************************************)
InitLaunched ==
    InitAfterExtraction({LineLab}, {{Member("other", OtherEntry)}}, {SystemPython},
                        {NotebookTop}, BOOLEAN,
                        {AbsentSettings,
                         SettingsFile("json", {[key |-> "permissions", value |-> "allow"]},
                                      Some(<<"other">>))})

NextLaunched ==
    \/ JupyterEmit
    \/ JupyterExits
    \/ McpExits
    \/ signal_handler
    \/ start_mcp_server_guard
    \/ start_mcp_server_env
    \/ start_mcp_server_popen
    \/ start_mcp_server_assign
    \/ start_mcp_server_sleep
    \/ start_mcp_server_check
    \/ generate_configurations_env
    \/ generate_mcp_config_open
    \/ generate_mcp_config_dump
    \/ generate_configurations_claude
    \/ generate_claude_settings_load
    \/ generate_claude_settings_open
    \/ generate_claude_settings_dump
    \/ monitor_jupyter
    \/ monitor_mcp
    \/ monitor_sleep
    \/ run_except
    \/ cli_result
    \/ cleanup_enter
    \/ cleanup_second_if
    \/ \E role \in {"mcp", "jupyter"} : cleanup_terminate(role)
    \/ \E role \in {"mcp", "jupyter"} : cleanup_wait(role)
    \/ \E role \in {"mcp", "jupyter"} : cleanup_kill(role)
    \/ cleanup_config_if
    \/ cleanup_unlink(BOOLEAN)
    \/ cleanup_return

SpecLaunched == InitLaunched /\ [][NextLaunched]_vars

\* The same runs with the main thread scheduled: while no handler is active,
\* the loop of monitor_processes (poll, poll, time.sleep(1)) keeps running.
\* Nothing is assumed of the processes or of the operator.
SpecMonitoring ==
    /\ InitLaunched
    /\ [][NextLaunched]_vars
    /\ WF_vars(monitor_jupyter \/ monitor_mcp \/ monitor_sleep)

(***************************************************************************)
(* installer.py: JupyterMCPInstaller.install, the installation phase that  *)
(* runs before the server setup is constructed.  A failure of a step       *)
(* reaches install()'s caller as InstallationError.                        *)
(***************************************************************************)
InstallFails ==
    /\ pc' = "i_done"
    /\ install_result' = "InstallationError"

\* check_prerequisites
install_prerequisites ==
    /\ pc = "i_prereq"
    /\ IF python_ok THEN pc' = "i_check" /\ UNCHANGED install_result ELSE InstallFails
    /\ UNCHANGED <<force_reinstall, python_ok, venv, steps, existing, smoke, setupVars>>

\* `if not force_reinstall and self.check_existing_installation(): return True`
install_existing ==
    /\ pc = "i_check"
    /\ \E import_ok \in ImportOutcomes(venv) :
          LET valid == check_existing_installation(venv, import_ok) IN
          /\ existing' = (IF force_reinstall THEN None ELSE Some(valid))
          /\ IF skip_installation(force_reinstall, valid)
             THEN pc' = "i_done" /\ install_result' = "True"
             ELSE pc' = "i_create" /\ UNCHANGED install_result
    /\ UNCHANGED <<force_reinstall, python_ok, venv, steps, smoke, setupVars>>

\* create_virtual_environment: shutil.rmtree of an existing directory, then
\* venv.create; either may fail and leave the directory in part.
create_virtual_environment ==
    /\ pc = "i_create"
    /\ LET removing == IF venv.dir THEN <<"rmtree">> ELSE <<>> IN
       \/ /\ venv' = FreshEnvironment
          /\ steps' = steps \o removing \o <<"venv.create">>
          /\ pc' = "i_pip"
          /\ UNCHANGED install_result
       \/ /\ venv' \in {AbsentEnvironment, EmptyDirectory}
          /\ steps' = steps \o removing \o <<"venv.create">>
          /\ InstallFails
       \/ /\ venv.dir
          /\ venv' \in {venv, EmptyDirectory}
          /\ steps' = steps \o removing
          /\ InstallFails
    /\ UNCHANGED <<force_reinstall, python_ok, existing, smoke, setupVars>>

\* upgrade_pip
upgrade_pip ==
    /\ pc = "i_pip"
    /\ steps' = Append(steps, "pip")
    /\ \/ pc' = "i_deps" /\ UNCHANGED install_result
       \/ InstallFails
    /\ UNCHANGED <<force_reinstall, python_ok, venv, existing, smoke, setupVars>>

install_dependencies_past_failure ==
    /\ pc = "i_deps"
    /\ LET dep == dependencies[Len(venv.packages) + 1] IN
       /\ steps' = Append(steps, dep)
       /\ \/ /\ venv' = [venv EXCEPT !.packages = Append(@, dep)]
             /\ pc' = (IF Len(venv'.packages) = Len(dependencies)
                       THEN "i_validate" ELSE "i_deps")
          \/ /\ pc' = "i_validate"
             /\ UNCHANGED venv
    /\ UNCHANGED <<force_reinstall, python_ok, existing, install_result, smoke, setupVars>>

\* install_dependencies: one pass of the loop over the list; run_command
\* raises when pip fails or takes more than 120 s.
install_dependencies ==
    /\ pc = "i_deps"
    /\ LET dep == dependencies[Len(venv.packages) + 1] IN
       /\ steps' = Append(steps, dep)
       /\ \/ /\ venv' = [venv EXCEPT !.packages = Append(@, dep)]
             /\ pc' = (IF Len(venv'.packages) = Len(dependencies)
                       THEN "i_validate" ELSE "i_deps")
             /\ UNCHANGED install_result
          \/ /\ InstallFails
             /\ UNCHANGED venv
    /\ UNCHANGED <<force_reinstall, python_ok, existing, smoke, setupVars>>

\* validate_installation: the package import, then the module's --help,
\* which is not run when the import failed.
validate_installation ==
    /\ pc = "i_validate"
    /\ \E import_ok \in ImportOutcomes(venv), help_ok \in BOOLEAN :
          /\ smoke' = <<[check |-> "import", ok |-> import_ok]>>
                        \o (IF import_ok THEN <<[check |-> "help", ok |-> help_ok]>> ELSE <<>>)
          /\ IF import_ok /\ help_ok
             THEN pc' = "i_done" /\ install_result' = "True"
             ELSE InstallFails
    /\ UNCHANGED <<force_reinstall, python_ok, venv, steps, existing, setupVars>>

\* install() is called: nothing of the server setup exists yet.
InitPhases(skips) ==
    /\ pc = "i_prereq"
    /\ skip_validation \in skips
    /\ validation = "none"
    /\ force_reinstall \in BOOLEAN
    /\ python_ok \in BOOLEAN
    /\ venv \in Environments
    /\ steps = <<>>
    /\ existing = None
    /\ install_result = "none"
    /\ smoke = <<>>
    /\ Constructed({DefaultPortDetectionTimeout})

InitInstaller == InitPhases({FALSE})

NextInstaller ==
    \/ install_prerequisites
    \/ install_existing
    \/ create_virtual_environment
    \/ upgrade_pip
    \/ install_dependencies
    \/ validate_installation

SpecInstaller == InitInstaller /\ [][NextInstaller]_vars

(***************************************************************************)
(* cli.py: main() runs the installation phase, the validation phase unless *)
(* --skip-validation is given, and the server setup phase; an error of a   *)
(* phase ends the process with exit code 1.  The handlers of SIGINT and    *)
(* SIGTERM are installed when the server setup is constructed; signals are *)
(* left out of this specification.                                         *)
(***************************************************************************)
cliFrame ==
    <<frames, pending, run_result, npasses, procVars, factVars, fileVars, histVars, docVars,
      cleanup_on_exit, port_detection_timeout, instVars, line, jpipe, elapsed, signals,
      attempted>>

\* sys.exit(1) in main()'s `except (InstallationError, ValidationError, ...)`.
ExitWithError ==
    /\ pc' = "done"
    /\ exit_code' = Some(1)

\* run_installation_phase, after install() ended.
run_installation_phase ==
    /\ pc = "i_done"
    /\ IF install_result = "True"
       THEN pc' = (IF skip_validation THEN "cli_setup" ELSE "v_validate")
            /\ UNCHANGED exit_code
       ELSE ExitWithError
    /\ UNCHANGED <<cliFrame, cliVars>>

\* validator.validate(): the environment exists with its structure, and the
\* commands run with its interpreter (version, imports, --help, the
\* comprehensive test) all succeed; commands_ok is their joint outcome.
validate(v, commands_ok) ==
    /\ v.dir
    /\ validate_project_structure(v)
    /\ v.python = "executable"
    /\ commands_ok

run_validation_phase_unchecked ==
    /\ pc = "v_validate"
    /\ \E commands_ok \in ImportOutcomes(venv) :
          validation' = (IF validate(venv, commands_ok) THEN "True" ELSE "ValidationError")
    /\ pc' = "cli_setup"
    /\ UNCHANGED <<exit_code, skip_validation, cliFrame>>

\* run_validation_phase
run_validation_phase ==
    /\ pc = "v_validate"
    /\ \E commands_ok \in ImportOutcomes(venv) :
          IF validate(venv, commands_ok)
          THEN validation' = "True" /\ pc' = "cli_setup" /\ UNCHANGED exit_code
          ELSE validation' = "ValidationError" /\ ExitWithError
    /\ UNCHANGED <<skip_validation, cliFrame>>

\* run_server_setup_phase: JupyterMCPServerSetup(notebook_path, **kwargs) is
\* constructed, or its path validation raises ServerSetupError; then run().
run_server_setup_phase ==
    /\ pc = "cli_setup"
    /\ \E ok \in BOOLEAN :
          IF ok THEN pc' = "j_venv" /\ UNCHANGED exit_code ELSE ExitWithError
    /\ UNCHANGED <<cliFrame, cliVars>>

InitCli == InitPhases(BOOLEAN)

NextCli ==
    \/ NextInstaller
    \/ run_installation_phase
    \/ run_validation_phase
    \/ run_server_setup_phase
    \/ JupyterEmit
    \/ JupyterExits
    \/ McpExits
    \/ Tick
    \/ start_jupyter_lab_venv
    \/ start_jupyter_lab_popen
    \/ start_jupyter_lab_assign
    \/ start_jupyter_lab_loop
    \/ start_jupyter_lab_poll
    \/ start_jupyter_lab_readline
    \/ extract_port
    \/ extract_token
    \/ extract_url
    \/ start_mcp_server_guard
    \/ start_mcp_server_env
    \/ start_mcp_server_popen
    \/ start_mcp_server_assign
    \/ start_mcp_server_sleep
    \/ start_mcp_server_check
    \/ generate_configurations_env
    \/ generate_mcp_config_open
    \/ generate_mcp_config_dump
    \/ generate_configurations_claude
    \/ generate_claude_settings_load
    \/ generate_claude_settings_open
    \/ generate_claude_settings_dump
    \/ monitor_jupyter
    \/ monitor_mcp
    \/ monitor_sleep
    \/ run_except
    \/ cli_result
    \/ cleanup_enter
    \/ cleanup_second_if
    \/ \E role \in {"mcp", "jupyter"} : cleanup_terminate(role)
    \/ \E role \in {"mcp", "jupyter"} : cleanup_wait(role)
    \/ \E role \in {"mcp", "jupyter"} : cleanup_kill(role)
    \/ cleanup_config_if
    \/ cleanup_unlink({TRUE})
    \/ cleanup_return

SpecCli == InitCli /\ [][NextCli]_vars

(***************************************************************************)
(* The environment builder alone: create_jupyter_environment is called on  *)
(* the EnvironmentManager of a constructed controller, any number of       *)
(* times, with URLs, tokens and document ids of every kind.                *)
(***************************************************************************)
TokUpper == <<"A", "B", "C", "D", "E", "F", "0", "1">>
TokNewline == TokGood \o <<"\n">>
TokSevenNewline == <<"a", "b", "c", "d", "e", "f", "0", "\n">>

BuilderTokens ==
    {None, Some(<<>>), Some(TokShort), Some(TokGood), Some(TokTail), Some(TokUpper),
     Some(TokNewline), Some(TokSevenNewline)}

\* A URL the scraper builds, a string without a scheme, and None.
BuilderUrls == {Some(LocalUrl(88)), Some([scheme |-> "", host |-> "", port |-> 88]), None}

\* The document ids of the notebooks, and the empty string.
BuilderDocumentIds == {get_relative_path_for_document_id(nb) : nb \in Notebooks} \cup {<<>>}

create_jupyter_environment_call ==
    /\ \E url \in BuilderUrls, token \in BuilderTokens, notebook \in BuilderDocumentIds :
          BuildEnvironment(url, token, notebook)
    /\ UNCHANGED <<pc, line, elapsed, ctlVars, procVars, factVars, fileVars, confVars, attempted,
                   mcp_servers, mcp_old, sys_executable, mcp_cmd, notebook_path, claudeVars,
                   histVars, signals, jpipe>>

NextBuilder == create_jupyter_environment_call

SpecBuilder == Init /\ [][NextBuilder]_vars

(***************************************************************************)
(* Properties.                                                             *)
(***************************************************************************)
\* The place of a step in cleanup(); the logged failure of the unlink comes
\* after the retraction it belongs to.
Rank(ev) ==
    CASE ev = "mcp_stop" -> 1 [] ev = "jup_stop" -> 2 [] ev = "retract" -> 3 [] OTHER -> 4

Before(q, a, b) == \E i, j \in 1..Len(q) : i < j /\ q[i] = a /\ q[j] = b
Has(q, a) == \E i \in 1..Len(q) : q[i] = a

\* An activation of cleanup() attempted every step that applies to it.
AllAttempted(q) ==
    /\ mcp_process => Has(q, "mcp_stop")
    /\ jupyter_process => Has(q, "jup_stop")
    /\ cleanup_on_exit => Has(q, "retract")

\* The connection facts are complete: a positive port, a non-empty token and
\* the base URL http://localhost:<port> of that port.
FactsComplete ==
    /\ jupyter_port.some /\ jupyter_port.val > 0
    /\ jupyter_token.some /\ jupyter_token.val # <<>>
    /\ jupyter_url.some /\ jupyter_url.val = [scheme |-> "http", host |-> "localhost",
                                              port |-> jupyter_port.val]

Ended == pc = "done"

\* C1: in every activation of cleanup() the steps performed are in the order
\* bridge stop, interactive-server stop, retraction: no step is performed
\* after a later one, the interactive server's stop is attempted only after
\* the bridge's when there is a bridge, and the retraction only after the
\* stop attempt of each process there is.
C1_TeardownOrder ==
    \A i \in DOMAIN frames :
        LET q == frames[i].seq
        IN /\ \A a, b \in 1..Len(q) : a < b => Rank(q[a]) < Rank(q[b])
           /\ (Has(q, "jup_stop") /\ mcp_process) => Before(q, "mcp_stop", "jup_stop")
           /\ (Has(q, "retract") /\ mcp_process) => Before(q, "mcp_stop", "retract")
           /\ (Has(q, "retract") /\ jupyter_process) => Before(q, "jup_stop", "retract")

C1_Witness ==
    \E i \in DOMAIN frames : frames[i].seq = <<"mcp_stop", "jup_stop", "retract">>

\* C2: after a single signal delivered during Monitoring, the run ends with
\* the teardown having been executed exactly once (one activation of
\* cleanup(), not one by the handler and another by run()'s finally).
C2_TeardownOnce ==
    (Ended /\ signals = 1 /\ sig_first = Some("Monitoring")) => npasses = 1

\* C3: a second signal delivered while a teardown is in progress starts no
\* further activation of cleanup(), and an activation that was interrupted
\* goes on when the interrupting one has returned (no step of it is skipped).
C3_SecondSignalHarmless ==
    [][/\ (signals >= 1 /\ frames # <<>> /\ signals' > signals) => npasses' = npasses
       /\ (Len(frames) >= 2 /\ Top.step = "return" /\ frames' # frames)
              => (Len(frames') = Len(frames) - 1
                  /\ \A i \in DOMAIN frames' : frames'[i].id = frames[i].id)]_vars

\* C4: when the first signal arrives during Monitoring, the process ends
\* after a teardown and with exit code 130.
C4_InterruptExit130 ==
    (Ended /\ sig_first = Some("Monitoring")) => (npasses >= 1 /\ exit_code = Some(130))

\* C5: whenever the innermost activation of cleanup() leaves the stack, it
\* has attempted every step that applies (the stop of each process there is,
\* and the retraction when cleanup is requested), whatever failed before.
C5_EveryStepAttempted ==
    [][(frames # <<>> /\ Len(frames') < Len(frames)) => AllAttempted(Top.seq)]_vars

\* C6: when run() has returned or the process has exited, an activation of
\* cleanup() has been called and has finished before (the activations still
\* on the stack are fewer than the activations started), and none is left
\* on the stack when the process has exited.
C6_TeardownBeforeEnd ==
    pc \in {"cli", "done"} => /\ npasses > Len(frames)
                              /\ Ended => frames = <<>>

C6_Witness == Ended /\ npasses >= 1 /\ signals = 0 /\ cause = "timeout"

\* C7: when the Monitoring loop has observed that a supervised process has
\* exited, monitoring is over (no document is written and no process is
\* launched any more), and the process ends after a teardown, with run() not
\* having reported success and with exit code 1.
C7_MonitorExitFatal ==
    cause \in {"monitor_jupyter", "monitor_mcp"}
        => /\ Phase(pc) \in {"ShuttingDown", "Returned"}
           /\ Ended => (npasses >= 1 /\ run_result # "True" /\ exit_code = Some(1))

\* C8: when the interactive server has exited before any matching line, the
\* bridge is never launched, the discovery document is not written by this
\* run, and the process ends with exit code 1.
C8_StartupExitFatal ==
    cause = "jupyter_exited"
        => /\ mproc = "none"
           /\ ~doc_written
           /\ Ended => exit_code = Some(1)

\* C9: the bridge process exists only if complete connection facts were
\* extracted before.
C9_BridgeOnlyWithFacts == mproc # "none" => FactsComplete

C9_Witness == mproc = "running" /\ FactsComplete /\ pc = "m_assign"

\* C10: the discovery document is opened or written only after the bridge
\* was spawned and was seen running at the check after the delay; when the
\* bridge was seen exited at that check the document is never written and
\* the run is in its teardown or has ended.
C10_ConfigAfterBridgeRunning ==
    /\ (doc_written \/ mcp_config \in {"partial", "new"})
           => (mproc # "none" /\ mcp_check = "running")
    /\ mcp_check = "exited"
           => (~doc_written /\ Phase(pc) \in {"ShuttingDown", "Returned"})

C10_Witness == doc_written /\ mcp_config = "new" /\ mcp_check = "running"

\* C11: the wait for the startup output never blocks past its deadline: once
\* the startup timeout has elapsed, the controller in the read of the
\* server's output can go on (to a match or to the timeout error), whatever
\* the server does, also when it stays alive and writes nothing.
C11_WaitNeverBlocks ==
    (Main("j_read") /\ elapsed >= startup_timeout) => ENABLED start_jupyter_lab_readline

\* C12: the deadline of the startup wait is the configured timeout: the
\* loop goes on while less than port_detection_timeout has elapsed and
\* raises the timeout error as soon as that much has elapsed.
C12_DeadlineIsConfigured ==
    [][(Main("j_loop") /\ frames' = <<>> /\ pc' # pc)
          => IF elapsed < port_detection_timeout
             THEN pc' = "j_poll"
             ELSE cause' = "timeout"]_vars

\* C13: once the launch of the interactive server has failed after the
\* process was spawned (timeout, or the process exited), the controller
\* still refers to the process, every activation of cleanup() that ends has
\* begun the stop of the interactive server, and the process does not exit
\* without such an activation.
C13_SpawnedServerStopped ==
    [][(cause \in {"timeout", "jupyter_exited"})
          => ((jupyter_process /\ jproc # "none")
              /\ (Len(frames') < Len(frames) => Has(Top.seq, "jup_stop"))
              /\ (pc' = "done" => npasses >= 1))]_vars

C13_Witness ==
    /\ cause = "timeout"
    /\ jproc = "running"
    /\ frames # <<>> /\ Top.by = "finally" /\ Has(Top.seq, "jup_stop")

\* C14: outside the three assignments of _extract_jupyter_details, the
\* connection facts are all set or all unset: port, token and base URL are
\* never partly set.
C14_FactsAllOrNone ==
    (frames = <<>> /\ pc \notin {"x_token", "x_url"})
        => (jupyter_port.some = jupyter_token.some /\ jupyter_token.some = jupyter_url.some)

\* The first pattern, in the order of the patterns, that matches the line.
FirstMatch(ln) ==
    LET ks == {k \in 1..Len(patterns) : ReSearch(patterns[k], ln).some}
    IN IF ks = {} THEN None
       ELSE LET k == CHOOSE j \in ks : \A i \in ks : j <= i
            IN ReSearch(patterns[k], ln)

\* The line embeds one URL of a supported shape with a non-zero port and a
\* valid token (hex characters only, of the minimal length at least).
EmbedsValidShape(ln) ==
    /\ Len(ln) = 1
    /\ ln[1].host \in {"localhost", "127.0.0.1"}
    /\ ln[1].path \in {"/lab", "/"}
    /\ ParseInt(ln[1].digits) # 0
    /\ Len(ln[1].tok) >= MinTokenLen
    /\ \A i \in 1..Len(ln[1].tok) : ln[1].tok[i] \in HexChars

\* C15: a line that embeds one URL of a supported shape with a non-zero port
\* and a hex token yields the facts of that URL: its port, its token and
\* the base URL http://<host>:<port> with the host of the line.
C15_FactsMatchEmbeddedUrl ==
    [][(pc = "x_url" /\ pc' = "m_guard" /\ EmbedsValidShape(line.val))
          => (/\ jupyter_port' = Some(ParseInt(line.val[1].digits))
              /\ jupyter_token' = Some(line.val[1].tok)
              /\ jupyter_url' = Some([scheme |-> "http", host |-> line.val[1].host,
                                      port |-> ParseInt(line.val[1].digits)]))]_vars

\* C16: the first pattern, in order, that matches the line decides: when
\* the port it matched is 0 the line yields no match and the facts stay as
\* they are; and no port of 0 is ever stored.
C16_FirstMatchDecides ==
    [][(/\ (pc = "j_extract" /\ pc' # pc /\ FirstMatch(line.val).some
               /\ ParseInt(FirstMatch(line.val).val.group1) = 0)
           => (pc' = "j_loop" /\ UNCHANGED factVars))
       /\ (jupyter_port'.some => jupyter_port'.val # 0)]_vars

\* The innermost activation of cleanup() takes a step of its own.
OwnStep ==
    /\ frames # <<>>
    /\ Len(frames') = Len(frames)
    /\ frames'[Len(frames)].id = Top.id
    /\ signals' = signals

\* C17: the stop of a process, once its termination request is out (the
\* activation is in the wait or at the forced kill), ends with the process
\* stopped and raises nothing out of cleanup(): the activation stays on the
\* stack, and when it leaves the stop block the process has exited.
C17_StopEndsStopped ==
    [][\A role \in {"mcp", "jupyter"} :
          (/\ frames # <<>>
           /\ signals' = signals
           /\ Top.step \in {RoleStep(role, "wait"), RoleStep(role, "kill")}
           /\ frames' # frames)
              => (/\ OwnStep
                  /\ frames'[Len(frames)].step = AfterStop(role) => Proc(role)' = "exited")]_vars

\* C18: the forced kill of a process is reached only from the wait that
\* follows its termination request, with the process still alive and its
\* graceful timeout elapsed (5 seconds for the bridge, 10 for the interactive
\* server); the wait is reached only from the termination request.
C18_KillOnlyAfterTimeout ==
    [][\A role \in {"mcp", "jupyter"} :
          /\ (OwnStep /\ frames'[Len(frames)].step = RoleStep(role, "kill")
                 /\ Top.step # RoleStep(role, "kill"))
                => (/\ Top.step = RoleStep(role, "wait")
                    /\ Proc(role) = "running"
                    /\ Top.waited >= (IF role = "mcp" THEN 5 ELSE 10))
          /\ (OwnStep /\ frames'[Len(frames)].step = RoleStep(role, "wait")
                 /\ Top.step # RoleStep(role, "wait"))
                => Top.step = RoleStep(role, "terminate")]_vars

C18_Witness ==
    /\ frames # <<>>
    /\ Top.step = "j_kill"
    /\ jproc = "running"
    /\ mproc = "exited"
    /\ Has(Top.seq, "mcp_stop")

\* C19: a run that failed and whose teardown was not interrupted by a
\* signal ends with run() having returned False (the failure it recorded),
\* whatever failed in the teardown.
C19_TeardownErrorNotMasking ==
    (Ended /\ cause # "none" /\ signals = 0) => run_result = "False"

\* C20: the discovery document is at every moment in its previous state
\* (absent or the old document) or the complete new document, never empty
\* or partly written.
C20_ConfigWrittenAtomically == mcp_config \in {"absent", "old", "new"}

\* C21: when a teardown pass completes, the discovery document is absent if
\* cleanup was requested (unless its deletion failed, which is logged and
\* leaves the pass running to its end), and is the document this run wrote
\* if cleanup was disabled and the run wrote one.
C21_DocumentAfterTeardown ==
    InCleanup("return") =>
        /\ (cleanup_on_exit /\ ~Has(Top.seq, "unlink_failed")) => mcp_config = "absent"
        /\ (~cleanup_on_exit /\ doc_written) => mcp_config = "new"

\* The members of a document under other names than the controller's.
OtherMembers(servers) == {m \in servers : m.name # "jupyter"}

\* C22: when the write of the discovery document completes, every member
\* the file held under another server name before the write began is still
\* in it, and a write over a document this run wrote yields that document.
C22_DocumentMerged ==
    [][(Main("g_dump") /\ pc' = "g_claude")
          => /\ OtherMembers(mcp_old) \subseteq mcp_servers'
             /\ (doc_written => mcp_servers' = mcp_old)]_vars

\* C23: in the discovery document a run wrote, the command of the entry
\* "jupyter" is the interpreter the run launched the bridge with and its
\* arguments are the arguments of that launch.
C23_DocumentNamesLaunchedInterpreter ==
    (doc_written /\ mcp_config = "new")
        => \A m \in mcp_servers :
               m.name = "jupyter"
                   => /\ mcp_cmd.some
                      /\ m.entry.command = Head(mcp_cmd.val)
                      /\ m.entry.args = Tail(mcp_cmd.val)

\* A token that is None or empty, shorter than 8 characters, or has a
\* character that is not a lowercase hex digit.
BadToken(token) ==
    \/ ~token.some
    \/ Len(token.val) < MinTokenLen
    \/ \E i \in 1..Len(token.val) : token.val[i] \notin HexChars

C25_EnvironmentComplete ==
    (env_call.some /\ env_call.val.result.ok)
        => LET env == env_call.val.result.env
           IN /\ DOMAIN env = EnvKeys
              /\ env.TRANSPORT # "" /\ env.PROVIDER # "" /\ env.START_NEW_RUNTIME # ""
              /\ env.DOCUMENT_URL.scheme # "" /\ env.DOCUMENT_URL.host # ""
              /\ env.DOCUMENT_TOKEN # <<>> /\ env.DOCUMENT_ID # <<>>
              /\ env.DOCUMENT_URL = jupyter_url.val /\ env.RUNTIME_URL = jupyter_url.val
              /\ env.DOCUMENT_TOKEN = jupyter_token.val
              /\ env.RUNTIME_TOKEN = jupyter_token.val
              /\ IF IsUnder(notebook_path, project_dir)
                 THEN project_dir \o env.DOCUMENT_ID = notebook_path
                 ELSE env.DOCUMENT_ID = notebook_path /\ Head(env.DOCUMENT_ID) = "/"

\* A notebook below the project directory, the environment built for the
\* bridge launch.
C25_Witness ==
    /\ pc = "m_popen"
    /\ notebook_path = NotebookSub
    /\ env_call.some /\ env_call.val.result.ok
    /\ validated_env = Some(env_call.val.result.env)

\* The step in which generate_claude_settings completes its write.
SettingsWritten == Main("c_dump") /\ pc' = "mon_j"

Elements(arr) == {arr[i] : i \in 1..Len(arr)}
Count(arr, name) == Cardinality({i \in 1..Len(arr) : arr[i] = name})

\* C26: the update of an existing settings document writes a document with
\* the same unrelated top-level members, whose array begins with the names
\* it held and holds nothing else but the server name.
C26_SettingsPassedThrough ==
    [][(SettingsWritten /\ settings_read.val.kind = "json")
          => LET old == IF settings_read.val.enabled.some THEN settings_read.val.enabled.val
                        ELSE <<>>
             IN /\ settings'.kind = "json"
                /\ settings'.other = settings_read.val.other
                /\ settings'.enabled.some
                /\ Len(settings'.enabled.val) >= Len(old)
                /\ SubSeq(settings'.enabled.val, 1, Len(old)) = old
                /\ Elements(settings'.enabled.val) = Elements(old) \cup {"jupyter"}]_vars

\* An update over a document with an unrelated member and another
\* server's name in the array.
C26_Witness ==
    /\ pc = "mon_j"
    /\ settings_read.some
    /\ settings_read.val = SettingsFile("json", {[key |-> "permissions", value |-> "allow"]},
                                        Some(<<"other">>))
    /\ settings.kind = "json"
    /\ settings.enabled = Some(<<"other", "jupyter">>)

C28_MissingSettingsStartFresh ==
    [][/\ (Main("c_load") /\ pc' # pc /\ claude_writable
               /\ settings.kind \in {"absent", "invalid"})
           => (pc' = "c_open" /\ frames' = <<>>)
       /\ (SettingsWritten /\ settings_read.val.kind \in {"absent", "invalid"})
           => settings' = SettingsFile("json", {}, Some(<<"jupyter">>))]_vars

\* An update that found a file that is not JSON.
C28_Witness ==
    /\ pc = "mon_j"
    /\ settings_read = Some(InvalidSettings)
    /\ settings = SettingsFile("json", {}, Some(<<"jupyter">>))

\* C29: when the settings cannot be written, generate_claude_settings ends
\* and the controller goes on to Monitoring without an error; when the
\* write of the discovery document has failed, the controller never
\* monitors, and the process ends after a teardown with exit code 1.
C29_OnlyPrimaryWriteFatal ==
    [][/\ (Main("c_load") /\ ~claude_writable /\ pc' # pc /\ frames' = <<>>)
           => (pc' = "mon_j" /\ cause' = "none")
       /\ cause' = "config"
           => /\ Phase(pc') \in {"ShuttingDown", "Returned"}
              /\ pc' = "done" => (npasses' >= 1 /\ exit_code' = Some(1))]_vars

\* C30: when install() runs with force_reinstall false and the existing
\* environment passes check_existing_installation (structure and smoke
\* import), the call returns True at once: no step that changes the
\* environment has run and the environment is as it was.
C30_ValidEnvironmentUntouched ==
    [][(pc = "i_check" /\ ~force_reinstall /\ existing'.some /\ existing'.val)
          => /\ pc' = "i_done"
             /\ install_result' = "True"
             /\ steps' = <<>>
             /\ venv' = venv]_vars

C30_Witness ==
    /\ pc = "i_done"
    /\ ~force_reinstall
    /\ existing = Some(TRUE)
    /\ install_result = "True"
    /\ steps = <<>>
    /\ venv = CompleteEnvironment

\* The dependency specifications among the steps install() ran.
Installs == SelectSeq(steps, LAMBDA st : \E i \in DOMAIN dependencies : dependencies[i] = st)

\* C31: the pip installs install() ran are the first specifications of the
\* list, in the list's order and each once; all but possibly the last
\* succeeded, and when the last failed, install() has ended with an error and
\* no smoke check was run; a smoke check runs only after every specification
\* was installed; and install() returns True on the full path only with
\* every specification installed and both smoke checks run and passed.
C31_SequentialInstallThenSmoke ==
    LET n == Len(Installs)
        installed == Len(venv.packages)
    IN /\ Installs = SubSeq(dependencies, 1, n)
       /\ n > 0 =>
              /\ venv.packages = SubSeq(dependencies, 1, installed)
              /\ installed \in {n - 1, n}
              /\ installed = n - 1 =>
                     /\ pc = "i_done"
                     /\ install_result = "InstallationError"
                     /\ smoke = <<>>
       /\ smoke # <<>> => (n = Len(dependencies) /\ venv.packages = dependencies)
       /\ (install_result = "True" /\ steps # <<>>) =>
              /\ venv.packages = dependencies
              /\ smoke = <<[check |-> "import", ok |-> TRUE], [check |-> "help", ok |-> TRUE]>>

\* The full path ended well after fourteen installs and two smoke checks.
C31_Witness ==
    /\ pc = "i_done"
    /\ install_result = "True"
    /\ Installs = dependencies
    /\ Len(smoke) = 2

\* C32: a supervised process exists, or did, only when install() returned
\* True and the validation phase passed or was skipped by the flag; after an
\* InstallationError or a ValidationError no process was spawned, no
\* discovery document was written, nothing but the exit is left to do, and
\* the exit code is 1.
C32_LaunchOnlyAfterPhases ==
    /\ (jproc # "none" \/ mproc # "none") =>
           /\ install_result = "True"
           /\ \/ validation = "True"
              \/ skip_validation /\ validation = "none"
    /\ (install_result = "InstallationError" \/ validation = "ValidationError") =>
           /\ jproc = "none" /\ mproc = "none"
           /\ ~doc_written /\ mcp_config \in {"absent", "old"}
           /\ pc \in {"i_done", "done"}
           /\ pc = "done" => exit_code = Some(1)

\* The validation phase failed after a successful installation and the
\* process has exited.
C32_Witness ==
    /\ install_result = "True"
    /\ validation = "ValidationError"
    /\ pc = "done"
    /\ exit_code = Some(1)
    /\ jproc = "none"

\* C33: when the process exits after a signal was delivered, the stop of
\* every process the controller spawned was begun by some activation of
\* cleanup().
C33_SignalStopsEverySpawned ==
    (pc = "done" /\ signals >= 1)
        => \A role \in {"mcp", "jupyter"} : Proc(role) # "none" => role \in attempted

\* C34: a discovery document that was at the output path before the run and
\* that the run has not begun to rewrite is never removed.
C34_ForeignDocumentKept ==
    [][(mcp_config = "old") => (mcp_config' # "absent")]_vars

\* C35: the token the scraper stored passes validate_token, and the run
\* never fails in start_mcp_server's environment building.
C35_ExtractedTokenAccepted ==
    /\ jupyter_token.some => validate_token(jupyter_token)
    /\ cause # "env"

\* C36: when the process has exited after generate_claude_settings read the
\* settings file, the file is what it was then or the complete updated
\* document.
C36_SettingsNeverTruncated ==
    (pc = "done" /\ settings_read.some)
        => settings \in {settings_read.val, Dumped(LocalSettings)}

\* C37: no step taken while cleanup() is active changes the settings file,
\* whatever the cleanup option is, and when the process has exited with the
\* file a complete document, the file still lists "jupyter" in
\* enabledMcpjsonServers.
C37_TeardownKeepsSettings ==
    /\ [][(frames # <<>>) => (settings' = settings)]_vars
    /\ []((pc = "done" /\ settings_read.some /\ settings.kind = "json")
            => (settings.enabled.some /\ Contains(settings.enabled.val, "jupyter")))

\* The run wrote both files and was torn down with the cleanup option on:
\* the bridge was stopped, the discovery document is gone, the settings file
\* still enables "jupyter".
C37_Witness ==
    /\ pc = "done"
    /\ cleanup_on_exit
    /\ doc_written
    /\ mcp_config = "absent"
    /\ mproc = "exited"
    /\ "mcp" \in attempted
    /\ settings.kind = "json"
    /\ settings.enabled = Some(<<"jupyter">>)

C37_WitnessKept ==
    /\ pc = "done"
    /\ ~cleanup_on_exit
    /\ mcp_config = "new"
    /\ mproc = "exited"
    /\ settings.enabled = Some(<<"jupyter">>)

\* The interactive server is blocked on its output: the controller is in the
\* loop of monitor_processes, the server runs and its stdout pipe is full.
BlockedOnOutput ==
    /\ pc \in {"mon_j", "mon_m", "mon_sleep"}
    /\ frames = <<>>
    /\ jproc = "running"
    /\ jpipe = MaxPipe

\* C38: during Monitoring the interactive server is never blocked on its
\* output for ever: whenever its pipe is full, the pipe is read again (or
\* Monitoring ends).
C38_OutputKeepsDraining == []<>(~BlockedOnOutput)

====
